---- MODULE Spec2Model ----
(***************************************************************************)
(* pypahdb.decomposer.Decomposer: save_pdf, save_fits, plot_map, plot_fit. *)
(*                                                                         *)
(* Floating point values are records [k, n, d]: k is "fin" (the rational   *)
(* n/d, d > 0), "nan", "inf" or "ninf".  Arrays are records [shape, a]     *)
(* with 0-based index pairs <<i, j>>, shape = <<rows, cols>>.              *)
(* Coordinates of the pixel-corner grid are kept in half pixels (the code  *)
(* offsets the corners by 0.5), coordinates of the scale indicators in     *)
(* 1/288000 pixel (the code anchors them at 0.075, 0.1 and 0.25 of the     *)
(* axes and divides one pixel by 3600 * cdelt).                            *)
(***************************************************************************)
EXTENDS Integers, Sequences, FiniteSets, TLC

\* ------------------------------------------------------------------ bounds
MaxRows == 2
MaxCols == 2
MaxOdd == 1
MaxHdrCards == 2

\* ------------------------------------------------------------------ floats
NaN == [k |-> "nan", n |-> 0, d |-> 1]
PosInf == [k |-> "inf", n |-> 0, d |-> 1]
NegInf == [k |-> "ninf", n |-> 0, d |-> 1]
Frac(n, d) == [k |-> "fin", n |-> n, d |-> d]
Fin(n) == Frac(n, 1)

isfinite(v) == v.k = "fin"

Abs(n) == IF n < 0 THEN -n ELSE n
Sign(n) == IF n < 0 THEN -1 ELSE IF n = 0 THEN 0 ELSE 1

\* a < b on non-NaN floats
Less(a, b) ==
    CASE a.k = "ninf" -> b.k # "ninf"
      [] a.k = "inf" -> FALSE
      [] OTHER -> CASE b.k = "inf" -> TRUE
                    [] b.k = "ninf" -> FALSE
                    [] OTHER -> a.n * b.d < b.n * a.d

\* v / m as numpy divides floats: no exception, a warning at most
TrueDivide(v, m) ==
    CASE v.k = "nan" \/ m.k = "nan" -> NaN
      [] m.k = "fin" /\ m.n = 0 ->
            CASE v.k = "fin" -> IF v.n = 0 THEN NaN
                                ELSE IF v.n > 0 THEN PosInf ELSE NegInf
              [] OTHER -> v
      [] m.k \in {"inf", "ninf"} ->
            IF v.k = "fin" THEN Fin(0) ELSE NaN
      [] OTHER ->
            CASE v.k = "fin" -> Frac(v.n * Sign(m.n) * m.d, v.d * Abs(m.n))
              [] v.k = "inf" -> IF m.n > 0 THEN PosInf ELSE NegInf
              [] OTHER -> IF m.n > 0 THEN NegInf ELSE PosInf

\* ------------------------------------------------------------------ arrays
Cells(shape) == (0 .. shape[1] - 1) \X (0 .. shape[2] - 1)
Array(shape, f) == [shape |-> shape, a |-> f]
Full(shape, v) == Array(shape, [c \in Cells(shape) |-> v])
Size(arr) == arr.shape[1] * arr.shape[2]

Quantity(arr, unit) == [value |-> arr, unit |-> unit]

\* np.nanmax: the largest non-NaN element, NaN when every element is NaN,
\* ValueError on a zero-size array
NanMaxRaises(arr) == Size(arr) = 0
NanMax(arr) ==
    LET S == {arr.a[c] : c \in Cells(arr.shape)} \ {NaN}
    IN IF S = {} THEN NaN
       ELSE CHOOSE m \in S : \A v \in S : ~Less(m, v)

\* ------------------------------------------------------------------ WCS
\* The transform in its affine form: intermediate world coordinates are
\* PC . (p - crpix) with the reference pixel at the origin, scaled per axis by
\* cdelt; the scaling cancels in the round trip of plot_map.  cdelt is
\* wcs.wcs.cdelt[0] in arcseconds per pixel, a signed divisor of 3600
\* (3600 is astropy's default of one degree per pixel).
IdentityPC == <<<<1, 0>>, <<0, 1>>>>
NoWcs == [present |-> FALSE, pc |-> IdentityPC, cdelt |-> 3600]
Wcs(pc, cdelt) == [present |-> TRUE, pc |-> pc, cdelt |-> cdelt]

pixel_to_world_values(w, x, y) ==
    <<w.pc[1][1] * x + w.pc[1][2] * y, w.pc[2][1] * x + w.pc[2][2] * y>>

\* wcs_proj = wcs.deepcopy(); wcs_proj.wcs.pc = [[-1, 0], [0, 1]]
ProjPC == <<<<-1, 0>>, <<0, 1>>>>
world_to_pixel_values(pc, a, d) ==
    \* the inverse of a diagonal matrix of +-1 is the matrix itself
    <<pc[1][1] * a, pc[2][2] * d>>

\* ------------------------------------------------------------------ plot_map
\* np.meshgrid(np.arange(0, im.shape[1]), np.arange(0, im.shape[0])) - 0.5:
\* one grid point per cell of the image, x = column - 0.5, y = row - 0.5
MeshX(shape) == [c \in Cells(shape) |-> 2 * c[2] - 1]
MeshY(shape) == [c \in Cells(shape) |-> 2 * c[1] - 1]

\* the grid after the optional round trip pixel -> world -> pixel
Corners(shape, wcs) ==
    LET x == MeshX(shape)
        y == MeshY(shape)
        ad(c) == pixel_to_world_values(wcs, x[c], y[c])
        xy(c) == world_to_pixel_values(ProjPC, ad(c)[1], ad(c)[2])
    IN IF wcs.present
       THEN [x |-> [c \in Cells(shape) |-> xy(c)[1]],
             y |-> [c \in Cells(shape) |-> xy(c)[2]]]
       ELSE [x |-> x, y |-> y]

SetMin(S) == CHOOSE m \in S : \A v \in S : m <= v
SetMax(S) == CHOOSE m \in S : \A v \in S : m >= v
Values(f) == {f[c] : c \in DOMAIN f}

\* im = data / m
Normalize(arr, m) ==
    Array(arr.shape, [c \in Cells(arr.shape) |-> TrueDivide(arr.a[c], m)])

\* zip(ii, jj) with ii = [i, i+1, i+1, i, i], jj = [j, j, j+1, j+1, j]
QuadIndex(i, j) ==
    <<<<i, j>>, <<i + 1, j>>, <<i + 1, j + 1>>, <<i, j + 1>>, <<i, j>>>>

\* the loops "for i in range(im.shape[0] - 1): for j in range(im.shape[1] - 1)"
LoopRows(im) == IF im.shape[1] - 1 > 0 THEN im.shape[1] - 1 ELSE 0
LoopCols(im) == IF im.shape[2] - 1 > 0 THEN im.shape[2] - 1 ELSE 0

\* the argument list handed to plt.fill, one entry per emitted quadrilateral,
\* in loop order; k is the number of loop iterations already done
RECURSIVE FillArgs(_, _, _, _)
FillArgs(im, x, y, k) ==
    IF k >= LoopRows(im) * LoopCols(im) THEN <<>>
    ELSE LET i == k \div LoopCols(im)
             j == k % LoopCols(im)
             q == QuadIndex(i, j)
             rest == FillArgs(im, x, y, k + 1)
         IN IF isfinite(im.a[<<i, j>>])
            THEN <<[cell |-> <<i, j>>,
                    xs |-> [n \in 1 .. 5 |-> x[q[n]]],
                    ys |-> [n \in 1 .. 5 |-> y[q[n]]],
                    color |-> im.a[<<i, j>>]]>> \o rest
            ELSE rest

\* reverse = x[0, 0] < x[-1, 0]
ReverseGreater(x, shape) == x[<<0, 0>>] > x[<<shape[1] - 1, 0>>]
Reverse(x, shape) == x[<<0, 0>>] < x[<<shape[1] - 1, 0>>]

\* ax.transLimits.inverted().transform((fx, .)): the data coordinate at the
\* fraction f40/40 of the axis from its first limit to its second, in
\* 1/PixelUnit pixel when lim is in half pixels
PixelUnit == 288000
Anchor(lim, f40) == (40 * lim[1] + f40 * (lim[2] - lim[1])) * (PixelUnit \div 80)

\* the pixel-size indicator (a hatched square, one pixel wide)
PixelBox(xlim, ylim, reverse) ==
    LET x0 == Anchor(xlim, 3)
        y0 == Anchor(ylim, 4)
    IN [x0 |-> x0,
        x1 |-> IF reverse THEN x0 - PixelUnit ELSE x0 + PixelUnit,
        y0 |-> y0, y1 |-> y0 + PixelUnit]

\* the angular-size indicator: a line from x0 to x0 -+ 1.0 / (3600 * cdelt[0])
ArcsecBar(xlim, ylim, reverse, wcs) ==
    LET x0 == Anchor(xlim, 10)
        y0 == Anchor(ylim, 4)
    IN [x0 |-> x0,
        x1 |-> IF reverse THEN x0 - PixelUnit \div wcs.cdelt
                          ELSE x0 + PixelUnit \div wcs.cdelt,
        y0 |-> y0]

\* Decomposer.plot_map(data, title, wcs): the figure it returns, or the
\* exception it raises
plot_map(data, title, wcs) ==
    IF NanMaxRaises(data.value) THEN [raised |-> "ValueError"]
    ELSE
    LET m == NanMax(data.value)
        im == Normalize(data.value, m)
        g == Corners(im.shape, wcs)
        xlim0 == <<SetMin(Values(g.x)) - 2, SetMax(Values(g.x)) + 2>>
        ylim == <<SetMin(Values(g.y)) - 2, SetMax(Values(g.y)) + 2>>
        reverse == wcs.present /\ Reverse(g.x, im.shape)
        xlim == IF reverse THEN <<xlim0[2], xlim0[1]>> ELSE xlim0
    IN [raised |-> "none",
        title |-> title,
        m |-> m,
        im |-> im,
        x |-> g.x,
        y |-> g.y,
        xlim |-> xlim,
        ylim |-> ylim,
        patches |-> FillArgs(im, g.x, g.y, 0),
        overlay |-> wcs.present,
        reverse |-> reverse,
        inverted |-> reverse,
        pixel |-> IF wcs.present THEN PixelBox(xlim, ylim, reverse)
                  ELSE [x0 |-> 0, x1 |-> 0, y0 |-> 0, y1 |-> 0],
        arcsec |-> IF wcs.present THEN ArcsecBar(xlim, ylim, reverse, wcs)
                   ELSE [x0 |-> 0, x1 |-> 0, y0 |-> 0],
        xlabel |-> IF wcs.present THEN "right ascension" ELSE "pixel [#]",
        ylabel |-> IF wcs.present THEN "declination" ELSE "pixel [#]",
        clim |-> <<Fin(0), m>>]

\* ------------------------------------------------------------------ inputs
FieldValues == {Fin(0), Fin(1), NaN, PosInf}

Shapes == (0 .. MaxRows) \X (0 .. MaxCols)

SubsetsUpTo(S, n) == {T \in SUBSET S : Cardinality(T) <= n}

\* the arrays of a shape that differ from a constant in at most MaxOdd cells
FieldArrays(shape, vals) ==
    UNION {UNION {{Array(shape, [c \in Cells(shape) |->
                                    IF c \in T THEN o[c] ELSE fill])
                      : o \in [T -> vals]}
                  : T \in SubsetsUpTo(Cells(shape), MaxOdd)}
           : fill \in vals}

\* rotations by multiples of 90 degrees, with and without a flip
PCMatrices ==
    {<<<<a, b>>, <<c, d>>>> : a \in {-1, 0, 1}, b \in {-1, 0, 1},
                              c \in {-1, 0, 1}, d \in {-1, 0, 1}}
WcsInputs ==
    {NoWcs} \cup
    {Wcs(pc, cdelt) : pc \in {p \in PCMatrices :
                              /\ p[1][1] * p[2][2] - p[1][2] * p[2][1] \in {-1, 1}
                              /\ p[1][1] * p[1][2] = 0
                              /\ p[2][1] * p[2][2] = 0},
                    cdelt \in {-1, 2}}

\* ------------------------------------------------------------------ headers
\* A fits.Header is [cards, comments]: cards maps each keyword present to
\* its value, comments is the list of COMMENT cards.  Header objects live in
\* heap; a reference is an index into it, 0 stands for an argument that is
\* not a fits.Header (the default "").
NotAHeader == 0
Header(cards, comments) == [cards |-> cards, comments |-> comments]
EmptyHeader == Header(<<>>, <<>>)

Has(h, c) == c \in DOMAIN h.cards
\* hdr[c] = v
SetCard(h, c, v) ==
    Header([x \in DOMAIN h.cards \cup {c} |-> IF x = c THEN v ELSE h.cards[x]],
           h.comments)
\* del hdr[c]
DelCard(h, c) ==
    Header([x \in DOMAIN h.cards \ {c} |-> h.cards[x]], h.comments)
\* hdr['COMMENT'] = text
AddComment(h, text) == Header(h.cards, Append(h.comments, text))

\* "for c in cards: if c in hdr: del hdr[c]"
RECURSIVE StripCards(_, _)
StripCards(h, cards) ==
    IF cards = <<>> THEN h
    ELSE StripCards(IF Has(h, Head(cards)) THEN DelCard(h, Head(cards)) ELSE h,
                    Tail(cards))

\* the list of save_pdf
PdfCards ==
    <<"NAXIS3", "PC3_3", "CRPIX3", "CRVAL3", "CTYPE3", "CDELT3",
      "CUNIT3", "PS3_0", "PS3_1", "WCSAXES">>
\* the list of save_fits._fits_to_disk
FitsCardsShort ==
    <<"PC3_3", "CRPIX3", "CRVAL3", "CTYPE3", "CDELT3",
      "CUNIT3", "PS3_0", "PS3_1">>
FitsCards ==
    <<"PC3_3", "CRPIX3", "CRVAL3", "CTYPE3", "CDELT3",
      "CUNIT3", "PS3_0", "PS3_1", "WCSAXES">>

\* copy.deepcopy(header): a new object with the same contents
DeepCopyAlias(hp, ref) == [heap |-> hp, ref |-> ref]
DeepCopy(hp, ref) == [heap |-> Append(hp, hp[ref]), ref |-> Len(hp) + 1]
\* fits.Header()
NewHeader(hp) == [heap |-> Append(hp, EmptyHeader), ref |-> Len(hp) + 1]
\* an in-place update of the object behind ref
Update(hp, ref, h) == [hp EXCEPT ![ref] = h]

\* ------------------------------------------------------------------ save_fits
CommentLines ==
    <<"This file contains results from pypahdb.",
      "Pypahdb was created as part of the JWST ERS Program titled 'Radiative Feedback from Massive Stars as Traced by Multiband Imaging and Spectroscopic Mosaics' (ID 1288).",
      "Visit https://github.com/pahdb/pypahdb/ for more information on pypahdb.">>
ChunkLen == 72

PlaneComments ==
    <<"1st data plane contains the PAH ionization fraction.",
      "2nd data plane contains the PAH large fraction.",
      "3rd data plane contains the error">>

Min(a, b) == IF a < b THEN a ELSE b

\* [line[i:i+72] for i in range(0, len(line), 72)], from offset i on
RECURSIVE Chunks(_, _)
Chunks(line, i) ==
    IF i >= Len(line) THEN <<>>
    ELSE <<SubSeq(line, i + 1, Min(i + ChunkLen, Len(line)))>>
         \o Chunks(line, i + ChunkLen)

RECURSIVE AddComments(_, _)
AddComments(h, texts) ==
    IF texts = <<>> THEN h
    ELSE AddComments(AddComment(h, Head(texts)), Tail(texts))

RECURSIVE AddLines(_, _)
AddLines(h, lines) ==
    IF lines = <<>> THEN h
    ELSE AddLines(AddComments(h, Chunks(Head(lines), 0)), Tail(lines))

\* the provenance cards of _fits_to_disk
Stamp(h) ==
    SetCard(SetCard(SetCard(SetCard(h,
        "DATE", "today"),
        "ORIGIN", "NASA Ames Research Center"),
        "CREATOR", "pypahdb"),
        "AUTHOR", "Dr. C. Boersma,  Dr. M.J. Shannon, and Dr. A. Maragkoudakis")

\* np.stack((ionized_fraction.value, large_fraction.value, error.value), axis=0)
StackSwapped(a, b, c) == <<a, c, b>>
Stack(a, b, c) == <<a, b, c>>

\* the header _fits_to_disk leaves in hdr and hands to fits.PrimaryHDU
FitsHeader(h) ==
    AddComments(AddLines(StripCards(Stamp(h), FitsCards), CommentLines),
                PlaneComments)

\* the HDU written by hdu.writeto(filename, overwrite=True)
PrimaryHDU(obj, h) ==
    [written |-> TRUE,
     data |-> Stack(obj.ionized_fraction.value, obj.large_fraction.value,
                    obj.error.value),
     header |-> h]

NoFile == [written |-> FALSE, data |-> <<>>, header |-> EmptyHeader]

\* ------------------------------------------------------------------ save_pdf
PdfTitle == "pyPAHdb Results Summary"
InfoKeys ==
    {"Title", "Author", "Producer", "Creator", "Subject", "Keywords",
     "CreationDate", "Description"}
\* d = pdf.infodict() and the eight assignments to it
InfoDict ==
    [x \in InfoKeys |-> IF x = "Title" THEN PdfTitle ELSE x]

NoPdf == [state |-> "none", info |-> <<>>, pages |-> <<>>]

\* the header save_pdf derives the transform from
PdfHeader(h) == StripCards(SetCard(h, "NAXIS", "2"), PdfCards)

\* WCS(hdr): the header's first-axis scale when it has one, else the default
WCS(h) == Wcs(IdentityPC, IF Has(h, "CDELT1") THEN -1 ELSE 3600)

MapTitlesSwapped == <<"large fraction", "ionized fraction", "error">>
MapTitles == <<"ionized fraction", "large fraction", "error">>
\* the field each map is drawn from
MapField(obj, n) ==
    CASE n = 1 -> obj.ionized_fraction
      [] n = 2 -> obj.large_fraction
      [] OTHER -> obj.error

InShape(shape, a, b) == a < shape[1] /\ b < shape[2]
\* plot_fit(i, j) indexes fit, size, charge and the three fields at [i, j];
\* an index out of bounds raises IndexError
PlotFitRaises(obj, a, b) ==
    ~ /\ InShape(obj.fit, a, b)
      /\ InShape(obj.error.value.shape, a, b)
      /\ InShape(obj.large_fraction.value.shape, a, b)
      /\ InShape(obj.ionized_fraction.value.shape, a, b)

MapPage(f) ==
    [kind |-> "map", title |-> f.title, i |-> 0, j |-> 0,
     patches |-> Len(f.patches)]
FitPage(a, b) ==
    [kind |-> "fit", title |-> "fit", i |-> a, j |-> b, patches |-> 0]

\* pyplot's figure registry: the open figures, the current one last
Figure(id, by) == [id |-> id, by |-> by, drawn |-> TRUE]
\* plt.close(fig)
CloseFig(fs, id) == SelectSeq(fs, LAMBDA f : f.id # id)

\* ------------------------------------------------------------------ state
VARIABLES
    self,       \* the Decomposer: shapes of flux and fit/size/charge, the fields
    header,     \* the header argument: a reference, or NotAHeader
    domaps,     \* argument of save_pdf
    doplots,    \* argument of save_pdf
    heap,       \* the fits.Header objects
    header0,    \* the caller's header as it was when the call was made
    pc,         \* "idle", then the position inside save_pdf, then "done"
    step,       \* position inside one page: "plot", "savefig", "close", "clear"
    k,          \* number of the map being written, 1 .. 3
    i,          \* loop variable of save_pdf
    j,          \* loop variable of save_pdf
    hdr,        \* local of both: a reference to the working header, 0 if none
    wcs,        \* local of save_pdf
    fig,        \* local of save_pdf: the figure of the page being written
    pdf,        \* the PdfPages document: state, infodict, pages
    figs,       \* pyplot's open figures, the current one last
    nfig,       \* number of figures created so far
    exc,        \* the exception save_pdf propagates, "none" if none
    fitsfile,   \* the file save_fits wrote
    pm          \* a direct call of the static method plot_map

vars ==
    <<self, header, domaps, doplots, heap, header0, pc, step, k, i, j, hdr,
      wcs, fig, pdf, figs, nfig, exc, fitsfile, pm>>

args == <<self, header, domaps, doplots, header0>>
loopvars == <<k, i, j>>
headers == <<heap, hdr>>

NoFig == [id |-> 0, page |-> FitPage(0, 0)]
NoCall ==
    [state |-> "none", data |-> Quantity(Full(<<0, 0>>, NaN), ""),
     title |-> "", wcs |-> NoWcs, res |-> [raised |-> "pending"]]

Rows == self.flux[1]
Cols == self.flux[2]

\* ------------------------------------------------------------------ save_pdf
\* with PdfPages(filename) as pdf: d = pdf.infodict(); d[...] = ...
SavePdfEnter ==
    /\ pc = "idle"
    /\ pdf' = [state |-> "open", info |-> InfoDict, pages |-> <<>>]
    /\ pc' = "branch"
    /\ UNCHANGED <<args, headers, step, loopvars, wcs, fig, figs, nfig, exc,
                   fitsfile, pm>>

\* if (domaps is True): the title, the copy of the header, wcs
SavePdfHeader ==
    /\ pc = "branch"
    /\ domaps
    /\ IF header # NotAHeader
       THEN LET c == DeepCopy(heap, header)
                h == PdfHeader(c.heap[c.ref])
            IN /\ heap' = Update(c.heap, c.ref, h)
               /\ hdr' = c.ref
               /\ wcs' = WCS(h)
               /\ pdf' = IF Has(heap[header], "OBJECT")
                         THEN [pdf EXCEPT !.info["Title"] =
                                  @ \o " - " \o heap[header].cards["OBJECT"]]
                         ELSE pdf
       ELSE /\ wcs' = NoWcs
            /\ UNCHANGED <<heap, hdr, pdf>>
    /\ pc' = "maps"
    /\ k' = 1
    /\ step' = "plot"
    /\ UNCHANGED <<args, i, j, fig, figs, nfig, exc, fitsfile, pm>>

SavePdfNoMaps ==
    /\ pc = "branch"
    /\ ~domaps
    /\ pc' = "loop"
    /\ UNCHANGED <<args, headers, step, loopvars, wcs, fig, pdf, figs, nfig, exc,
                   fitsfile, pm>>

\* fig = self.plot_map(field, title, wcs=wcs); plot_map opens its figure
\* before it looks at the data
MapPlot ==
    /\ pc = "maps"
    /\ step = "plot"
    /\ LET f == plot_map(MapField(self, k), MapTitles[k], wcs)
       IN /\ figs' = Append(figs, Figure(nfig + 1, "plot_map"))
          /\ nfig' = nfig + 1
          /\ IF f.raised = "none"
             THEN /\ fig' = [id |-> nfig + 1, page |-> MapPage(f)]
                  /\ step' = "savefig"
                  /\ UNCHANGED <<pc, exc>>
             ELSE /\ exc' = f.raised
                  /\ pc' = "exit"
                  /\ UNCHANGED <<fig, step>>
    /\ UNCHANGED <<args, headers, loopvars, wcs, pdf, fitsfile, pm>>

\* if (doplots): for i in range(ordinate.shape[1]): for j in range(...)
FitsBegin ==
    /\ pc = "loop"
    /\ IF doplots /\ Rows > 0 /\ Cols > 0
       THEN /\ pc' = "fits"
            /\ i' = 0
            /\ j' = 0
            /\ step' = "plot"
       ELSE /\ pc' = "exit"
            /\ UNCHANGED <<i, j, step>>
    /\ UNCHANGED <<args, headers, k, wcs, fig, pdf, figs, nfig, exc, fitsfile, pm>>

\* fig = self.plot_fit(i, j); plot_fit opens its figure before it indexes
FitPlot ==
    /\ pc = "fits"
    /\ step = "plot"
    /\ figs' = Append(figs, Figure(nfig + 1, "plot_fit"))
    /\ nfig' = nfig + 1
    /\ IF PlotFitRaises(self, i, j)
       THEN /\ exc' = "IndexError"
            /\ pc' = "exit"
            /\ UNCHANGED <<fig, step>>
       ELSE /\ fig' = [id |-> nfig + 1, page |-> FitPage(i, j)]
            /\ step' = "savefig"
            /\ UNCHANGED <<pc, exc>>
    /\ UNCHANGED <<args, headers, loopvars, wcs, pdf, fitsfile, pm>>

\* pdf.savefig(fig, bbox_inches="tight")
Savefig ==
    /\ pc \in {"maps", "fits"}
    /\ step = "savefig"
    /\ pdf.state = "open"
    /\ pdf' = [pdf EXCEPT !.pages = Append(@, fig.page)]
    /\ step' = "close"
    /\ UNCHANGED <<args, headers, pc, loopvars, wcs, fig, figs, nfig, exc,
                   fitsfile, pm>>

\* plt.close(fig)
Close ==
    /\ pc \in {"maps", "fits"}
    /\ step = "close"
    /\ figs' = CloseFig(figs, fig.id)
    /\ step' = "clear"
    /\ UNCHANGED <<args, headers, pc, loopvars, wcs, fig, pdf, nfig, exc,
                   fitsfile, pm>>

\* plt.gcf().clear(): gcf() is the current figure, and a new figure when
\* none is open
GcfClear ==
    /\ IF figs = <<>>
       THEN /\ figs' = <<[Figure(nfig + 1, "gcf") EXCEPT !.drawn = FALSE]>>
            /\ nfig' = nfig + 1
       ELSE /\ figs' = [figs EXCEPT ![Len(figs)].drawn = FALSE]
            /\ nfig' = nfig

\* the clear after a map, and the step to the next map or to the fits
MapClear ==
    /\ pc = "maps"
    /\ step = "clear"
    /\ GcfClear
    /\ IF k < 3
       THEN /\ k' = k + 1
            /\ step' = "plot"
            /\ pc' = pc
       ELSE /\ pc' = "loop"
            /\ UNCHANGED <<k, step>>
    /\ UNCHANGED <<args, headers, i, j, wcs, fig, pdf, exc, fitsfile, pm>>

\* the clear after a fit, and the step of the two loops
FitClear ==
    /\ pc = "fits"
    /\ step = "clear"
    /\ GcfClear
    /\ IF j + 1 < Cols
       THEN /\ j' = j + 1
            /\ step' = "plot"
            /\ UNCHANGED <<pc, i>>
       ELSE IF i + 1 < Rows
            THEN /\ i' = i + 1
                 /\ j' = 0
                 /\ step' = "plot"
                 /\ pc' = pc
            ELSE /\ pc' = "exit"
                 /\ UNCHANGED <<i, j, step>>
    /\ UNCHANGED <<args, headers, k, wcs, fig, pdf, exc, fitsfile, pm>>

\* leaving the with block, normally or by an exception, closes the document
SavePdfExit ==
    /\ pc = "exit"
    /\ pdf' = [pdf EXCEPT !.state = "closed"]
    /\ pc' = "done"
    /\ UNCHANGED <<args, headers, step, loopvars, wcs, fig, figs, nfig, exc,
                   fitsfile, pm>>

\* ------------------------------------------------------------------ save_fits
SaveFits ==
    /\ pc = "idle"
    /\ LET c == IF header # NotAHeader THEN DeepCopy(heap, header)
                ELSE NewHeader(heap)
           h == FitsHeader(c.heap[c.ref])
       IN /\ heap' = Update(c.heap, c.ref, h)
          /\ hdr' = c.ref
          /\ fitsfile' = PrimaryHDU(self, h)
    /\ pc' = "done"
    /\ UNCHANGED <<args, step, loopvars, wcs, fig, pdf, figs, nfig, exc, pm>>

\* ------------------------------------------------------------------ plot_map
PlotMapCall ==
    /\ pm.state = "call"
    /\ pm' = [pm EXCEPT !.state = "returned",
                        !.res = plot_map(pm.data, pm.title, pm.wcs)]
    /\ UNCHANGED <<args, headers, pc, step, loopvars, wcs, fig, pdf, figs, nfig,
                   exc, fitsfile>>

\* ------------------------------------------------------------------ initial states
Decomposer(flux, fit, a, b, c) ==
    [flux |-> flux, fit |-> fit,
     ionized_fraction |-> Quantity(a, ""),
     large_fraction |-> Quantity(b, ""),
     error |-> Quantity(c, "")]

CardValue(c) ==
    CASE c = "OBJECT" -> "NGC7023"
      [] c = "NAXIS" -> "3"
      [] OTHER -> "caller"

\* the headers with at most MaxHdrCards of the given keywords
CallerHeaders(keys, comments) ==
    {Header([c \in T |-> CardValue(c)], comments) :
        T \in SubsetsUpTo(keys, MaxHdrCards)}

InitLocals ==
    /\ pc = "idle"
    /\ step = "plot"
    /\ k = 1
    /\ i = 0
    /\ j = 0
    /\ hdr = 0
    /\ wcs = NoWcs
    /\ fig = NoFig
    /\ pdf = NoPdf
    /\ exc = "none"
    /\ fitsfile = NoFile

InitHeader(hs) ==
    /\ header \in {NotAHeader, 1}
    /\ heap \in IF header = NotAHeader THEN {<<>>} ELSE {<<h>> : h \in hs}
    /\ header0 = IF header = NotAHeader THEN EmptyHeader ELSE heap[1]

\* save_pdf and save_fits on grids of every shape, the shapes of the arrays
\* agreeing or not, with and without a figure the caller left open
PdfKeys == {"OBJECT"}
Init ==
    /\ InitLocals
    /\ pm = NoCall
    /\ domaps \in BOOLEAN
    /\ doplots \in BOOLEAN
    /\ InitHeader(CallerHeaders(PdfKeys, <<>>))
    /\ \E flux \in Shapes, fs \in Shapes :
         \E fit \in {flux, fs}, v \in {Fin(1), NaN} :
            self = Decomposer(flux, fit, Full(fs, v), Full(fs, Fin(1)),
                              Full(fs, Fin(1)))
    /\ nfig \in {0, 1}
    /\ figs = IF nfig = 0 THEN <<>> ELSE <<Figure(1, "user")>>

\* save_pdf and save_fits on one pixel, with every header of at most
\* MaxHdrCards of the keywords the two functions read, write or delete
HdrKeys ==
    {PdfCards[n] : n \in DOMAIN PdfCards}
    \cup {"NAXIS", "OBJECT", "DATE", "CDELT1"}
InitHdr ==
    /\ InitLocals
    /\ pm = NoCall
    /\ domaps \in BOOLEAN
    /\ doplots \in BOOLEAN
    /\ InitHeader(CallerHeaders(HdrKeys, <<>>)
                  \cup CallerHeaders(HdrKeys, <<"caller">>))
    /\ self = Decomposer(<<1, 1>>, <<1, 1>>, Full(<<1, 1>>, Fin(1)),
                         Full(<<1, 1>>, Fin(1)), Full(<<1, 1>>, Fin(1)))
    /\ nfig = 0
    /\ figs = <<>>

\* save_fits on fields of every shape and content
FitsKeys == {"NAXIS3"}
InitFits ==
    /\ InitLocals
    /\ pm = NoCall
    /\ domaps = TRUE
    /\ doplots = TRUE
    /\ InitHeader(CallerHeaders(FitsKeys, <<>>))
    /\ \E s \in Shapes :
         \E a \in FieldArrays(s, FieldValues), b \in FieldValues,
            c \in FieldValues :
            self = Decomposer(s, s, a, Full(s, b), Full(s, c))
    /\ nfig = 0
    /\ figs = <<>>

\* plot_map on fields of every shape and content, with and without a transform
InitMap ==
    /\ InitLocals
    /\ domaps = TRUE
    /\ doplots = TRUE
    /\ header = NotAHeader
    /\ heap = <<>>
    /\ header0 = EmptyHeader
    /\ self = Decomposer(<<0, 0>>, <<0, 0>>, Full(<<0, 0>>, NaN),
                         Full(<<0, 0>>, NaN), Full(<<0, 0>>, NaN))
    /\ nfig = 0
    /\ figs = <<>>
    /\ \E s \in Shapes :
         \E a \in FieldArrays(s, FieldValues), w \in WcsInputs :
            pm = [state |-> "call", data |-> Quantity(a, ""), title |-> "map",
                  wcs |-> w, res |-> [raised |-> "pending"]]

Next ==
    \/ SavePdfEnter
    \/ SavePdfHeader
    \/ SavePdfNoMaps
    \/ MapPlot
    \/ FitsBegin
    \/ FitPlot
    \/ Savefig
    \/ Close
    \/ MapClear
    \/ FitClear
    \/ SavePdfExit
    \/ SaveFits

Spec == Init /\ [][Next]_vars

SpecHdr == InitHdr /\ [][Next]_vars

NextFits == SaveFits
SpecFits == InitFits /\ [][NextFits]_vars

NextMap == PlotMapCall
SpecMap == InitMap /\ [][NextMap]_vars

\* ------------------------------------------------------------------ properties
Returned == pc = "done" /\ pdf.state = "closed"
ReturnedNormally == Returned /\ exc = "none"

FieldShape == self.ionized_fraction.value.shape
ShapesAgree ==
    /\ self.fit = self.flux
    /\ self.ionized_fraction.value.shape = self.flux
    /\ self.large_fraction.value.shape = self.flux
    /\ self.error.value.shape = self.flux

MapPages == SelectSeq(pdf.pages, LAMBDA p : p.kind = "map")
FitPages == SelectSeq(pdf.pages, LAMBDA p : p.kind = "fit")

\* C1: one save_pdf call appends (3 if maps are requested else 0) +
\* (rows*cols if fits are requested else 0) pages, for every grid of
\* rows x cols >= 0 cells (here: whose arrays all have the shape of the flux).
C1_PageCount ==
    (Returned /\ ShapesAgree) =>
        Len(pdf.pages) = (IF domaps THEN 3 ELSE 0)
                         + (IF doplots THEN Rows * Cols ELSE 0)

\* C2: every map page precedes every fit page; the map pages are the
\* ionized-fraction, large-fraction and error maps in this order; the fit
\* pages are in row-major order, i outer and j inner, each pixel once when
\* the call returns normally; the metadata is set before the first page and
\* no page is appended once the document is closed.
C2_Order ==
    /\ \A a \in DOMAIN pdf.pages, b \in DOMAIN pdf.pages :
          (a < b /\ pdf.pages[a].kind = "fit") => pdf.pages[b].kind = "fit"
    /\ \A n \in DOMAIN MapPages :
          MapPages[n].title =
             <<"ionized fraction", "large fraction", "error">>[n]
    /\ \A n \in DOMAIN FitPages :
          /\ FitPages[n].i = (n - 1) \div Cols
          /\ FitPages[n].j = (n - 1) % Cols
          /\ FitPages[n].i < Rows
    /\ ReturnedNormally =>
          /\ Len(MapPages) = IF domaps THEN 3 ELSE 0
          /\ Len(FitPages) = IF doplots THEN Rows * Cols ELSE 0
    /\ pdf.pages # <<>> => DOMAIN pdf.info = InfoKeys
C2_Frozen ==
    /\ pdf'.info # pdf.info => pdf'.pages = <<>>
    /\ pdf.state = "closed" => pdf'.pages = pdf.pages /\ pdf'.state = "closed"
\* C2: the page order of C2_Order holds in every state, and every step keeps
\* the metadata fixed once a page exists and the pages fixed once the
\* document is closed (C2_Frozen).
C2_PageOrder == [](C2_Order) /\ [][C2_Frozen]_vars
C2_Witness ==
    /\ ReturnedNormally
    /\ domaps
    /\ doplots
    /\ Rows = 2
    /\ Cols = 2
    /\ Len(pdf.pages) = 7
    /\ pdf.pages[5].j = 1
    /\ pdf.pages[6].i = 1

\* C8: when the spatial shapes of the fit, size or charge arrays or of the
\* fields disagree with the flux, save_pdf reports an error; it does not
\* return normally (here: when the fits are requested and the flux has at
\* least one pixel, so that there are fit pages to write).
C8_MismatchReported ==
    (Returned /\ doplots /\ Rows * Cols > 0 /\ ~ShapesAgree) => exc # "none"

CallFigures == SelectSeq(figs, LAMBDA f : f.by # "user")
PageFigures == SelectSeq(figs, LAMBDA f : f.by \in {"plot_map", "plot_fit"})

\* C9: the number of open figures the call created is bounded by a constant
\* (two), the figure of a page is closed before the figure of the next page
\* is created, and no figure the call created is open when save_pdf returns.
C9_FiguresReleased ==
    /\ Len(CallFigures) <= 2
    /\ Len(PageFigures) <= 1
    /\ ReturnedNormally => CallFigures = <<>>

\* C4: the image save_fits writes has three planes, plane 0 the ionized
\* fraction, plane 1 the large fraction, plane 2 the error, with or without
\* a header.
C4_PlaneOrder ==
    fitsfile.written =>
        /\ Len(fitsfile.data) = 3
        /\ fitsfile.data[1] = self.ionized_fraction.value
        /\ fitsfile.data[2] = self.large_fraction.value
        /\ fitsfile.data[3] = self.error.value
C4_Witness ==
    /\ fitsfile.written
    /\ header # NotAHeader
    /\ FieldShape = <<2, 2>>
    /\ fitsfile.data[1].a[<<1, 1>>] = NaN
    /\ fitsfile.data[1].a[<<0, 0>>] = Fin(1)
    /\ fitsfile.data[2].a[<<0, 0>>] = Fin(0)
    /\ fitsfile.data[3].a[<<0, 0>>] = PosInf

\* C6 as stated: every keyword save_pdf deletes is absent from the header
\* save_fits writes, and deleting again changes nothing.
C6_SameCards ==
    fitsfile.written =>
        /\ \A n \in DOMAIN PdfCards : ~Has(fitsfile.header, PdfCards[n])
        /\ StripCards(fitsfile.header, PdfCards) = fitsfile.header

\* C6: every keyword save_pdf deletes, except NAXIS3, is absent from the
\* header save_fits writes; NAXIS3 is there exactly when the caller's header
\* has it; deleting the keywords of either function again from the header it
\* produced changes nothing.
C6_SameCardsButNaxis3 ==
    /\ fitsfile.written =>
          /\ \A c \in {"PC3_3", "CRPIX3", "CRVAL3", "CTYPE3", "CDELT3",
                       "CUNIT3", "PS3_0", "PS3_1", "WCSAXES"} :
                ~Has(fitsfile.header, c)
          /\ Has(fitsfile.header, "NAXIS3") <=> Has(header0, "NAXIS3")
          /\ StripCards(fitsfile.header, FitsCards) = fitsfile.header
    /\ (pdf.state # "none" /\ hdr # 0) =>
          /\ \A c \in {"NAXIS3", "PC3_3", "CRPIX3", "CRVAL3", "CTYPE3",
                       "CDELT3", "CUNIT3", "PS3_0", "PS3_1", "WCSAXES"} :
                ~Has(heap[hdr], c)
          /\ StripCards(heap[hdr], PdfCards) = heap[hdr]
C6_Witness ==
    /\ fitsfile.written
    /\ Has(header0, "NAXIS3")
    /\ Has(header0, "WCSAXES")
    /\ ~Has(fitsfile.header, "WCSAXES")

StampKeys == {"DATE", "ORIGIN", "CREATOR", "AUTHOR"}

\* C10: the caller's header is the same after save_pdf and after save_fits
\* as before; without a header save_fits starts from an empty one and writes
\* the three comments on the planes, in the order of the planes.
C10_CallerHeaderKept ==
    /\ header # NotAHeader => heap[header] = header0
    /\ (fitsfile.written /\ header = NotAHeader) =>
          /\ DOMAIN fitsfile.header.cards = StampKeys
          /\ Len(fitsfile.header.comments) = 8
          /\ SubSeq(fitsfile.header.comments, 6, 8) =
                <<"1st data plane contains the PAH ionization fraction.",
                  "2nd data plane contains the PAH large fraction.",
                  "3rd data plane contains the error">>
    /\ fitsfile.written =>
          /\ StampKeys \subseteq DOMAIN fitsfile.header.cards
          /\ Len(fitsfile.header.comments) = Len(header0.comments) + 8
C10_Witness ==
    /\ fitsfile.written
    /\ header # NotAHeader
    /\ Has(header0, "DATE")
    /\ Has(header0, "CRPIX3")
    /\ header0.comments # <<>>
    /\ heap[hdr] # heap[header]

PmData == pm.data.value
PmDone == pm.state = "returned" /\ pm.res.raised = "none"
FiniteCells(arr) == {c \in Cells(arr.shape) : isfinite(arr.a[c])}
PatchCells(f) == {f.patches[n].cell : n \in DOMAIN f.patches}
PositiveMax(arr) == isfinite(NanMax(arr)) /\ NanMax(arr).n > 0
FirstX == pm.res.x[<<0, 0>>]
LastX == pm.res.x[<<PmData.shape[1] - 1, 0>>]

\* C3: for a field with a finite cell, plot_map emits one quadrilateral for
\* each finite cell, the last row and the last column included, and none
\* for a cell that is not finite (here: for a field whose maximum is finite
\* and positive, so that the division by the maximum keeps finite cells
\* finite).
C3_OnePatchPerFiniteCell ==
    (PmDone /\ FiniteCells(PmData) # {} /\ PositiveMax(PmData)) =>
        /\ PatchCells(pm.res) = FiniteCells(PmData)
        /\ Len(pm.res.patches) = Cardinality(FiniteCells(PmData))

\* C5 as stated: with a transform, the x-axis is inverted exactly when the
\* projected x of the first corner exceeds that of the last.
C5_InvertedWhenDecreasing ==
    (PmDone /\ pm.wcs.present) => (pm.res.inverted <=> FirstX > LastX)

\* C5: with a transform, the x-axis is inverted exactly when the projected x
\* of the first grid point of the first row is less than that of the first
\* grid point of the last row; the pixel-size and the angular-size indicator
\* are extended by minus one pixel and minus 1/(3600*cdelt) pixels when it is
\* inverted, by plus as much when it is not; without a transform the axis is
\* not inverted.
C5_InvertedWhenIncreasing ==
    PmDone =>
        /\ pm.wcs.present =>
              /\ pm.res.inverted <=> FirstX < LastX
              /\ pm.res.inverted <=> pm.res.xlim[1] > pm.res.xlim[2]
              /\ pm.res.pixel.x1 - pm.res.pixel.x0 =
                    IF pm.res.inverted THEN -PixelUnit ELSE PixelUnit
              /\ (pm.res.arcsec.x1 - pm.res.arcsec.x0) * pm.wcs.cdelt =
                    IF pm.res.inverted THEN -PixelUnit ELSE PixelUnit
        /\ ~pm.wcs.present => ~pm.res.inverted
C5_Witness ==
    /\ PmDone
    /\ pm.wcs.present
    /\ pm.res.inverted
    /\ FirstX < LastX
    /\ pm.res.patches # <<>>
    /\ pm.res.pixel.x1 < pm.res.pixel.x0

\* C7: when the maximum of the field is zero or not finite, plot_map does not
\* raise and leaves the values as they are instead of dividing them by the
\* maximum; a field without a finite cell gives a map without patches.
C7_IdentityScale ==
    (pm.state = "returned" /\ Size(PmData) > 0
        /\ NanMax(PmData) \in {Fin(0), NaN, PosInf, NegInf}) =>
        /\ pm.res.raised = "none"
        /\ pm.res.im = PmData
        /\ FiniteCells(PmData) = {} => pm.res.patches = <<>>

====
